---- MODULE Spec2Model ----
(***************************************************************************)
(* MacroPad Plus firmware (software/macropad_plus.c): the boot sequence    *)
(* and the main loop of main(), with the five edge-triggered input         *)
(* channels, the half-step encoder decoder, the key/encoder macro actions  *)
(* and the watchdog supervision of the loop.                               *)
(*                                                                         *)
(* Pin levels are the raw values PIN_read returns (0 = low, 1 = high);     *)
(* the inputs are active low, the code negates every level it compares     *)
(* against a stored state.  __bit variables are modelled as 0 / 1.         *)
(***************************************************************************)
EXTENDS Integers, Sequences, FiniteSets, TLC

\* ---------------------------------------------------------------------------
\* Bounds of the model
\* ---------------------------------------------------------------------------
MaxIter == 3        \* loop iterations explored per boot
MaxResets == 1      \* watchdog-forced restarts explored after power-on
WdtBound == 2       \* watchdog period, in abstract time units

\* ---------------------------------------------------------------------------
\* Program constants
\* ---------------------------------------------------------------------------
NEO_COUNT == 6      \* number of pixels in the string (src/config.h)

Bit == {0, 1}
NotSampled == 2     \* history marker: pin not read (yet)

Channels == {"key1", "key2", "key3", "encA", "encSW"}
ButtonChannels == {"key1", "key2", "key3", "encSW"}
Pins == Channels \cup {"encB"}

LoopPcs == {"key1", "key2", "key3", "enc", "encSW", "dly2", "wdtreset"}

VARIABLES
  pc,           \* position in main()
  key1last,     \* last state of key 1
  key2last,     \* last state of key 2
  key3last,     \* last state of key 3
  encAlast,     \* last state of enc A
  encSWlast,    \* last state of encoder switch
  i,            \* temp variable (uint8_t)
  wdtArmed,     \* watchdog hardware: enabled
  wdtCount,     \* watchdog hardware: time since the last refresh
  bootCalls,    \* history: calls made by the boot sequence of this boot
  iterCalls,    \* history: calls made in the current loop iteration
  bootPin,      \* history: raw level of PIN_ENC_SW sampled at line 173
  pins,         \* history: raw level sampled per pin in this iteration
  before,       \* history: stored last state a channel block started from
  det,          \* history: transition detected per channel in this iteration
  prev,         \* history: raw levels sampled in the previous iteration
  iters,        \* history: loop iterations completed in this boot
  iterTime,     \* history: time spent in the current iteration
  overrun,      \* history: some iteration lasted WdtBound or longer
  wdtResets,    \* history: watchdog resets since power-on
  decisions,    \* history: samplings of the boot condition since power-on
  normalEntered,\* history: HID_init was reached since power-on
  watch,        \* history: the channel whose whole sequence is recorded
  chanSamples,  \* history: logical levels sampled on the watched channel
  chanCalls     \* history: calls dispatched for the watched channel

progVars == <<pc, key1last, key2last, key3last, encAlast, encSWlast, i>>
wdtVars == <<wdtArmed, wdtCount>>
lastVars == <<key1last, key2last, key3last, encAlast, encSWlast>>
iterHist == <<pins, before, det>>
vars == <<pc, key1last, key2last, key3last, encAlast, encSWlast, i,
          wdtArmed, wdtCount, bootCalls, iterCalls, bootPin, pins, before,
          det, prev, iters, iterTime, overrun, wdtResets, decisions,
          normalEntered, watch, chanSamples, chanCalls>>

\* ---------------------------------------------------------------------------
\* Helpers
\* ---------------------------------------------------------------------------
\* C's logical negation on a bit
Not(b) == 1 - b

NoPins == [p \in Pins |-> NotSampled]
NoBefore == [c \in Channels |-> NotSampled]
NoDet == [c \in Channels |-> "Idle"]

\* ---------------------------------------------------------------------------
\* Macro functions (lines 81..137): each is one call into the HID library
\* ---------------------------------------------------------------------------
KEY1_PRESSED == <<"KBD_press", "F13">>
KEY1_RELEASED == <<"KBD_release", "F13">>
KEY2_PRESSED == <<"KBD_press", "F14">>
KEY2_RELEASED == <<"KBD_release", "F14">>
KEY3_PRESSED == <<"KBD_press", "F15">>
KEY3_RELEASED == <<"KBD_release", "F15">>
ENC_CCW_ACTION == <<"KBD_type", "F16">>
ENC_SW_PRESSED == <<"KBD_press", "F17">>
ENC_SW_RELEASED == <<"KBD_release", "F17">>
ENC_CW_ACTION == <<"KBD_type", "F18">>

\* ---------------------------------------------------------------------------
\* Edge detection and dispatch of one channel block
\* ---------------------------------------------------------------------------
\* Variant: the raw level, not its negation, is compared
ChangedRaw(p, last) == p # last

\* "!PIN_read(PIN) != last": the sampled level, negated, differs from the
\* stored state
Changed(p, last) == Not(p) # last

\* Variant: the branch on the new state is inverted
KeyBlockSwapped(p, last, pressed, released) ==
  IF Not(p) # last
  THEN LET n == Not(last)
       IN  IF n = 1
           THEN [last |-> n, calls |-> <<released>>, det |-> "Fell"]
           ELSE [last |-> n, calls |-> <<pressed>>, det |-> "Rose"]
  ELSE [last |-> last, calls |-> <<>>, det |-> "None"]

\* Variant: the stored state is not updated
KeyBlockNoStore(p, last, pressed, released) ==
  IF Not(p) # last
  THEN IF Not(last) = 1
       THEN [last |-> last, calls |-> <<pressed>>, det |-> "Rose"]
       ELSE [last |-> last, calls |-> <<released>>, det |-> "Fell"]
  ELSE [last |-> last, calls |-> <<>>, det |-> "None"]

\* Variant: a key held active repeats its pressed macro
KeyBlockRepeat(p, last, pressed, released) ==
  IF Not(p) # last
  THEN LET n == Not(last)
       IN  IF n = 1
           THEN [last |-> n, calls |-> <<pressed>>, det |-> "Rose"]
           ELSE [last |-> n, calls |-> <<released>>, det |-> "Fell"]
  ELSE IF last = 1
       THEN [last |-> last, calls |-> <<pressed>>, det |-> "None"]
       ELSE [last |-> last, calls |-> <<>>, det |-> "None"]

\* One button block: "if(!PIN_read(PIN) != last) { last = !last;
\* if(last) PRESSED(); else RELEASED(); }".  The result carries the new
\* stored state, the calls made and the branch taken.
KeyBlock(p, last, pressed, released) ==
  IF Changed(p, last)
  THEN LET n == Not(last)
       IN  IF n = 1
           THEN [last |-> n, calls |-> <<pressed>>, det |-> "Rose"]
           ELSE [last |-> n, calls |-> <<released>>, det |-> "Fell"]
  ELSE [last |-> last, calls |-> <<>>, det |-> "None"]

\* Variant: the two directions are exchanged
EncDirectionSwapped(b) == IF b = 1 THEN ENC_CCW_ACTION ELSE ENC_CW_ACTION

\* The decoder's direction test "if(PIN_read(PIN_ENC_B))": a high level on
\* channel B selects the clockwise action
EncDirection(b) == IF b = 1 THEN ENC_CW_ACTION ELSE ENC_CCW_ACTION

\* Variant: the stored state of channel A is updated on a Rose only
EncBlockNoFellStore(a, b, last) ==
  IF Not(a) # last
  THEN LET n == Not(last)
       IN  IF n = 1
           THEN [last |-> n, calls |-> <<EncDirection(b)>>, det |-> "Rose",
                 readB |-> TRUE]
           ELSE [last |-> last, calls |-> <<>>, det |-> "Fell",
                 readB |-> FALSE]
  ELSE [last |-> last, calls |-> <<>>, det |-> "None", readB |-> FALSE]

\* Variant: channel B is read on every change of channel A
EncBlockReadOnFell(a, b, last) ==
  IF Not(a) # last
  THEN LET n == Not(last)
       IN  IF n = 1
           THEN [last |-> n, calls |-> <<EncDirection(b)>>, det |-> "Rose",
                 readB |-> TRUE]
           ELSE [last |-> n, calls |-> <<>>, det |-> "Fell", readB |-> TRUE]
  ELSE [last |-> last, calls |-> <<>>, det |-> "None", readB |-> FALSE]

\* Variant: the rotation macro is repeated while channel A stays active
EncBlockRepeat(a, b, last) ==
  IF Not(a) # last
  THEN LET n == Not(last)
       IN  IF n = 1
           THEN [last |-> n, calls |-> <<EncDirection(b)>>, det |-> "Rose",
                 readB |-> TRUE]
           ELSE [last |-> n, calls |-> <<>>, det |-> "Fell", readB |-> FALSE]
  ELSE IF last = 1
       THEN [last |-> last, calls |-> <<EncDirection(b)>>, det |-> "None",
             readB |-> TRUE]
       ELSE [last |-> last, calls |-> <<>>, det |-> "None", readB |-> FALSE]

\* The encoder block: channel A is edge-detected like a key; channel B is
\* read only after a change of A to active.  b is the level channel B has
\* at that moment.
EncBlock(a, b, last) ==
  IF Changed(a, last)
  THEN LET n == Not(last)
       IN  IF n = 1
           THEN [last |-> n, calls |-> <<EncDirection(b)>>, det |-> "Rose",
                 readB |-> TRUE]
           ELSE [last |-> n, calls |-> <<>>, det |-> "Fell", readB |-> FALSE]
  ELSE [last |-> last, calls |-> <<>>, det |-> "None", readB |-> FALSE]

\* Variant: the negation of the pin level is missing
BootRequestedRaw(p) == p = 1

\* The boot condition "if(!PIN_read(PIN_ENC_SW))"
BootRequested(p) == Not(p) = 1

\* Statement order of main(): the statement that follows a straight-line
\* statement (setup, the bootloader call, the normal boot path of lines
\* 182..190, and the loop body of lines 193..259, whose last statement is
\* followed by its first)
StatementOrder ==
  [entry |-> "decide", lightinit |-> "light", bootnow |-> "bootloader",
   pan0 |-> "pan1", pan1 |-> "pan2", pan2 |-> "update",
   update |-> "hidinit", hidinit |-> "dly500", dly500 |-> "wdtstart",
   wdtstart |-> "key1",
   key1 |-> "key2", key2 |-> "key3", key3 |-> "enc", enc |-> "encSW",
   encSW |-> "dly2", dly2 |-> "wdtreset", wdtreset |-> "key1"]

\* Variant: the key 3 block stands before the key 2 block
AfterKey3First(at) ==
  [StatementOrder EXCEPT !.key1 = "key3", !.key3 = "key2",
                         !.key2 = "enc"][at]

\* Variant: the loop is opened before the bootloader check
AfterLoopToDecide(at) ==
  [StatementOrder EXCEPT !.wdtreset = "decide"][at]

\* Variant: the watchdog is started before the HID device is initialised
AfterWdtEarly(at) ==
  [StatementOrder EXCEPT !.update = "wdtstart", !.wdtstart = "hidinit",
                         !.dly500 = "key1"][at]

\* Variant: WDT_reset stands between the key 3 block and the encoder block
AfterWdtMidLoop(at) ==
  [StatementOrder EXCEPT !.key3 = "wdtreset", !.wdtreset = "enc",
                         !.dly2 = "key1"][at]

\* Variant: the loop is entered without WDT_start
AfterNoWdtStart(at) ==
  [StatementOrder EXCEPT !.dly500 = "key1"][at]

After(at) == StatementOrder[at]

\* The program runs unless the armed watchdog has run out
Running == ~(wdtArmed /\ wdtCount >= WdtBound)

\* History of one channel block
Record(ch, p, last, r) ==
  /\ pins' = [pins EXCEPT ![ch] = p]
  /\ before' = [before EXCEPT ![ch] = last]
  /\ det' = [det EXCEPT ![ch] = r.det]
  /\ iterCalls' = iterCalls \o r.calls
  /\ chanSamples' = IF watch = ch THEN Append(chanSamples, Not(p))
                    ELSE chanSamples
  /\ chanCalls' = IF watch = ch THEN chanCalls \o r.calls ELSE chanCalls

bootHistUnchanged ==
  UNCHANGED <<bootCalls, bootPin, decisions, normalEntered, wdtResets, watch>>

loopHistUnchanged ==
  UNCHANGED <<iterCalls, pins, before, det, prev, iters, iterTime, overrun,
              chanSamples, chanCalls>>

\* ---------------------------------------------------------------------------
\* Initial state: power-on, at the entry of main().  The locals hold no
\* defined value before their initialisers run.
\* ---------------------------------------------------------------------------
Init ==
  /\ pc = "entry"
  /\ key1last \in Bit /\ key2last \in Bit /\ key3last \in Bit
  /\ encAlast \in Bit /\ encSWlast \in Bit
  /\ i = 0
  /\ wdtArmed = FALSE /\ wdtCount = 0
  /\ bootCalls = <<>> /\ iterCalls = <<>>
  /\ bootPin = NotSampled
  /\ pins = NoPins /\ before = NoBefore /\ det = NoDet /\ prev = NoBefore
  /\ iters = 0 /\ iterTime = 0 /\ overrun = FALSE
  /\ wdtResets = 0 /\ decisions = 0 /\ normalEntered = FALSE
  /\ watch \in Channels
  /\ chanSamples = <<>> /\ chanCalls = <<>>

\* ---------------------------------------------------------------------------
\* Boot sequence
\* ---------------------------------------------------------------------------
\* Variant: the last-state variables are left without initialisers
SetupNoInit ==
  /\ pc = "entry" /\ Running
  /\ bootCalls' = bootCalls \o <<<<"NEO_init">>, <<"CLK_config">>,
                                 <<"DLY_ms", 10>>, <<"NEO_clearAll">>>>
  /\ pc' = "decide"
  /\ UNCHANGED <<lastVars, i, wdtArmed, wdtCount, bootPin, decisions,
                 normalEntered, wdtResets, watch>>
  /\ loopHistUnchanged

\* Variant: the last states are initialised to 1, the idle pin level
SetupLastsOne ==
  /\ pc = "entry" /\ Running
  /\ key1last' = 1 /\ key2last' = 1 /\ key3last' = 1
  /\ encAlast' = 1 /\ encSWlast' = 1
  /\ bootCalls' = bootCalls \o <<<<"NEO_init">>, <<"CLK_config">>,
                                 <<"DLY_ms", 10>>, <<"NEO_clearAll">>>>
  /\ pc' = "decide"
  /\ UNCHANGED <<i, wdtArmed, wdtCount, bootPin, decisions, normalEntered,
                 wdtResets, watch>>
  /\ loopHistUnchanged

\* lines 159..170: initialisers of the locals, NEO_init, CLK_config,
\* DLY_ms(10), NEO_clearAll
Setup ==
  /\ pc = "entry" /\ Running
  /\ key1last' = 0 /\ key2last' = 0 /\ key3last' = 0
  /\ encAlast' = 0 /\ encSWlast' = 0
  /\ bootCalls' = bootCalls \o <<<<"NEO_init">>, <<"CLK_config">>,
                                 <<"DLY_ms", 10>>, <<"NEO_clearAll">>>>
  /\ pc' = After("entry")
  /\ UNCHANGED <<i, wdtArmed, wdtCount, bootPin, decisions, normalEntered,
                 wdtResets, watch>>
  /\ loopHistUnchanged

\* line 173: the single sample of the encoder switch
Decide ==
  /\ pc = "decide" /\ Running
  /\ \E p \in Bit :
       /\ bootPin' = p
       /\ pc' = IF BootRequested(p) THEN "lightinit" ELSE "pan0"
  /\ decisions' = decisions + 1
  /\ UNCHANGED <<lastVars, i, wdtVars, bootCalls, normalEntered, wdtResets,
                 watch>>
  /\ loopHistUnchanged

\* Variant: the counter starts at NEO_COUNT, one byte per pixel
LightInitOnePerPixel ==
  /\ pc = "lightinit" /\ Running
  /\ i' = NEO_COUNT % 256
  /\ pc' = "light"
  /\ UNCHANGED <<lastVars, wdtVars>>
  /\ bootHistUnchanged /\ loopHistUnchanged

\* line 174: "i = 3*NEO_COUNT" in an 8-bit variable
LightInit ==
  /\ pc = "lightinit" /\ Running
  /\ i' = (3 * NEO_COUNT) % 256
  /\ pc' = After("lightinit")
  /\ UNCHANGED <<lastVars, wdtVars>>
  /\ bootHistUnchanged /\ loopHistUnchanged

\* line 174: loop test "i", body NEO_sendByte(127), step "i--"
Light ==
  /\ pc = "light" /\ Running
  /\ IF i # 0
     THEN /\ bootCalls' = Append(bootCalls, <<"NEO_sendByte", 127>>)
          /\ i' = (i - 1) % 256
          /\ pc' = "light"
     ELSE /\ pc' = "bootnow"
          /\ UNCHANGED <<bootCalls, i>>
  /\ UNCHANGED <<lastVars, wdtVars, bootPin, decisions, normalEntered,
                 wdtResets, watch>>
  /\ loopHistUnchanged

\* line 175: BOOT_now() hands the device over to the bootloader
BOOT_now ==
  /\ pc = "bootnow" /\ Running
  /\ bootCalls' = Append(bootCalls, <<"BOOT_now">>)
  /\ pc' = After("bootnow")
  /\ UNCHANGED <<lastVars, i, wdtVars, bootPin, decisions, normalEntered,
                 wdtResets, watch>>
  /\ loopHistUnchanged

\* The pan flag, lines 182..184
PanColor(k) ==
  CASE k = 0 -> <<"NEO_writeColor", 0, 255, 33, 140>>
    [] k = 1 -> <<"NEO_writeColor", 1, 255, 216, 0>>
    [] k = 2 -> <<"NEO_writeColor", 2, 33, 177, 255>>

BootStep(from, call) ==
  /\ pc = from /\ Running
  /\ bootCalls' = Append(bootCalls, call)
  /\ pc' = After(from)
  /\ UNCHANGED <<lastVars, i, bootPin, decisions, wdtResets, watch>>
  /\ loopHistUnchanged

NEO_writeColor0 ==
  BootStep("pan0", PanColor(0)) /\ UNCHANGED <<wdtVars, normalEntered>>

NEO_writeColor1 ==
  BootStep("pan1", PanColor(1)) /\ UNCHANGED <<wdtVars, normalEntered>>

NEO_writeColor2 ==
  BootStep("pan2", PanColor(2)) /\ UNCHANGED <<wdtVars, normalEntered>>

\* line 185
NEO_update ==
  BootStep("update", <<"NEO_update">>)
  /\ UNCHANGED <<wdtVars, normalEntered>>

\* line 188
HID_init ==
  /\ BootStep("hidinit", <<"HID_init">>)
  /\ normalEntered' = TRUE
  /\ UNCHANGED wdtVars

\* line 189
DLY_ms500 ==
  BootStep("dly500", <<"DLY_ms", 500>>)
  /\ UNCHANGED <<wdtVars, normalEntered>>

\* line 190: WDT_start() arms the watchdog, the loop follows
WDT_start ==
  /\ BootStep("wdtstart", <<"WDT_start">>)
  /\ wdtArmed' = TRUE
  /\ wdtCount' = 0
  /\ UNCHANGED normalEntered

\* ---------------------------------------------------------------------------
\* Main loop
\* ---------------------------------------------------------------------------
loopFrame == UNCHANGED <<i, wdtVars, prev, iters, iterTime, overrun>>

\* lines 197..205
Key1 ==
  /\ pc = "key1" /\ Running /\ iters < MaxIter
  /\ \E p \in Bit :
       LET r == KeyBlock(p, key1last, KEY1_PRESSED, KEY1_RELEASED)
       IN  /\ key1last' = r.last
           /\ Record("key1", p, key1last, r)
  /\ pc' = After("key1")
  /\ UNCHANGED <<key2last, key3last, encAlast, encSWlast>>
  /\ loopFrame /\ bootHistUnchanged

\* Variant: the key 2 block flips the last state of key 1
Key2CopyPaste ==
  /\ pc = "key2" /\ Running
  /\ \E p \in Bit :
       LET r == KeyBlock(p, key2last, KEY2_PRESSED, KEY2_RELEASED)
       IN  /\ key2last' = key2last
           /\ key1last' = IF r.det = "None" THEN key1last ELSE Not(key1last)
           /\ Record("key2", p, key2last, r)
  /\ pc' = "key3"
  /\ UNCHANGED <<key3last, encAlast, encSWlast>>
  /\ loopFrame /\ bootHistUnchanged

\* lines 209..217
Key2 ==
  /\ pc = "key2" /\ Running
  /\ \E p \in Bit :
       LET r == KeyBlock(p, key2last, KEY2_PRESSED, KEY2_RELEASED)
       IN  /\ key2last' = r.last
           /\ Record("key2", p, key2last, r)
  /\ pc' = After("key2")
  /\ UNCHANGED <<key1last, key3last, encAlast, encSWlast>>
  /\ loopFrame /\ bootHistUnchanged

\* lines 221..229
Key3 ==
  /\ pc = "key3" /\ Running
  /\ \E p \in Bit :
       LET r == KeyBlock(p, key3last, KEY3_PRESSED, KEY3_RELEASED)
       IN  /\ key3last' = r.last
           /\ Record("key3", p, key3last, r)
  /\ pc' = After("key3")
  /\ UNCHANGED <<key1last, key2last, encAlast, encSWlast>>
  /\ loopFrame /\ bootHistUnchanged

\* lines 233..243
Enc ==
  /\ pc = "enc" /\ Running
  /\ \E a \in Bit, b \in Bit :
       LET r == EncBlock(a, b, encAlast)
       IN  /\ encAlast' = r.last
           /\ pins' = [pins EXCEPT !["encA"] = a,
                                   !["encB"] = IF r.readB THEN b
                                               ELSE NotSampled]
           /\ before' = [before EXCEPT !["encA"] = encAlast]
           /\ det' = [det EXCEPT !["encA"] = r.det]
           /\ iterCalls' = iterCalls \o r.calls
           /\ chanSamples' = IF watch = "encA"
                             THEN Append(chanSamples, Not(a))
                             ELSE chanSamples
           /\ chanCalls' = IF watch = "encA" THEN chanCalls \o r.calls
                           ELSE chanCalls
  /\ pc' = After("enc")
  /\ UNCHANGED <<key1last, key2last, key3last, encSWlast>>
  /\ loopFrame /\ bootHistUnchanged

\* lines 247..255
EncSW ==
  /\ pc = "encSW" /\ Running
  /\ \E p \in Bit :
       LET r == KeyBlock(p, encSWlast, ENC_SW_PRESSED, ENC_SW_RELEASED)
       IN  /\ encSWlast' = r.last
           /\ Record("encSW", p, encSWlast, r)
  /\ pc' = After("encSW")
  /\ UNCHANGED <<key1last, key2last, key3last, encAlast>>
  /\ loopFrame /\ bootHistUnchanged

\* line 257
DLY_ms2 ==
  /\ pc = "dly2" /\ Running
  /\ iterCalls' = Append(iterCalls, <<"DLY_ms", 2>>)
  /\ pc' = After("dly2")
  /\ UNCHANGED <<lastVars, pins, before, det, chanSamples, chanCalls>>
  /\ loopFrame /\ bootHistUnchanged

\* Variant: the watchdog is not refreshed
RefreshedNot(count) == count

\* What WDT_reset() does to the watchdog count
Refreshed(count) == 0

\* line 258 and the jump back to line 193: WDT_reset() refreshes the
\* watchdog, the next iteration starts
WDT_reset ==
  /\ pc = "wdtreset" /\ Running
  /\ wdtCount' = Refreshed(wdtCount)
  /\ pc' = After("wdtreset")
  /\ iters' = iters + 1
  /\ iterTime' = 0
  /\ prev' = [c \in Channels |-> pins[c]]
  /\ pins' = NoPins /\ before' = NoBefore /\ det' = NoDet
  /\ iterCalls' = <<>>
  /\ UNCHANGED <<lastVars, i, wdtArmed, overrun, chanSamples, chanCalls>>
  /\ bootHistUnchanged

\* ---------------------------------------------------------------------------
\* Time and the watchdog hardware
\* ---------------------------------------------------------------------------
\* Time passes while the loop is at some statement (a call that takes long
\* or never returns); the armed watchdog counts it
Tick ==
  /\ wdtArmed /\ wdtCount < WdtBound
  /\ pc \in LoopPcs
  /\ wdtCount' = wdtCount + 1
  /\ iterTime' = iterTime + 1
  /\ overrun' = (overrun \/ iterTime + 1 >= WdtBound)
  /\ UNCHANGED <<progVars, wdtArmed, iterCalls, pins, before, det, prev,
                 iters, chanSamples, chanCalls>>
  /\ bootHistUnchanged

\* The watchdog ran out: the device is reset and main() starts again.  The
\* watchdog is disarmed by the reset and the locals hold no defined value.
WdtExpire ==
  /\ wdtArmed /\ wdtCount >= WdtBound
  /\ wdtResets < MaxResets
  /\ wdtResets' = wdtResets + 1
  /\ pc' = "entry"
  /\ key1last' \in Bit /\ key2last' \in Bit /\ key3last' \in Bit
  /\ encAlast' \in Bit /\ encSWlast' \in Bit
  /\ i' = 0
  /\ wdtArmed' = FALSE /\ wdtCount' = 0
  /\ bootCalls' = <<>> /\ iterCalls' = <<>>
  /\ bootPin' = NotSampled
  /\ pins' = NoPins /\ before' = NoBefore /\ det' = NoDet /\ prev' = NoBefore
  /\ iters' = 0 /\ iterTime' = 0
  /\ chanSamples' = <<>> /\ chanCalls' = <<>>
  /\ UNCHANGED <<overrun, decisions, normalEntered, watch>>

Next ==
  \/ Setup \/ Decide \/ LightInit \/ Light \/ BOOT_now
  \/ NEO_writeColor0 \/ NEO_writeColor1 \/ NEO_writeColor2 \/ NEO_update
  \/ HID_init \/ DLY_ms500 \/ WDT_start
  \/ Key1 \/ Key2 \/ Key3 \/ Enc \/ EncSW \/ DLY_ms2 \/ WDT_reset
  \/ Tick \/ WdtExpire

Spec == Init /\ [][Next]_vars

\* The watchdog hardware acts when it has run out, and the processor
\* executes main() from its entry after a reset.  The recorded channel has
\* no influence on the program; one choice of it is explored here.
InitLive == Init /\ watch = "encSW"

SpecLive ==
  InitLive /\ [][Next]_vars /\ WF_vars(WdtExpire) /\ WF_vars(Setup)

\* The processor executes the bootloader branch of main() statement by
\* statement
SpecBoot ==
  InitLive /\ [][Next]_vars
  /\ WF_vars(LightInit) /\ WF_vars(Light) /\ WF_vars(BOOT_now)

TypeOK ==
  /\ key1last \in Bit /\ key2last \in Bit /\ key3last \in Bit
  /\ encAlast \in Bit /\ encSWlast \in Bit
  /\ i \in 0..255
  /\ wdtCount \in 0..WdtBound
  /\ iters \in 0..MaxIter

\* ---------------------------------------------------------------------------
\* Vocabulary of the properties
\* ---------------------------------------------------------------------------
\* Number of occurrences of a call in a sequence of calls
Count(seq, call) == Cardinality({n \in DOMAIN seq : seq[n] = call})

\* The stored last state of a channel
Last(ch) ==
  CASE ch = "key1" -> key1last
    [] ch = "key2" -> key2last
    [] ch = "key3" -> key3last
    [] ch = "encA" -> encAlast
    [] ch = "encSW" -> encSWlast

\* The macro bound to a button channel's press and release
PressedOf(ch) ==
  CASE ch = "key1" -> KEY1_PRESSED
    [] ch = "key2" -> KEY2_PRESSED
    [] ch = "key3" -> KEY3_PRESSED
    [] ch = "encSW" -> ENC_SW_PRESSED

ReleasedOf(ch) ==
  CASE ch = "key1" -> KEY1_RELEASED
    [] ch = "key2" -> KEY2_RELEASED
    [] ch = "key3" -> KEY3_RELEASED
    [] ch = "encSW" -> ENC_SW_RELEASED

\* The calls a channel can cause
ActionsOf(ch) ==
  IF ch = "encA" THEN {ENC_CW_ACTION, ENC_CCW_ACTION}
  ELSE {PressedOf(ch), ReleasedOf(ch)}

\* Number of calls of this iteration caused by a channel
IterCount(ch) ==
  Cardinality({n \in DOMAIN iterCalls : iterCalls[n] \in ActionsOf(ch)})

\* The logical (active = 1) level sampled on a channel in this iteration
Level(ch) == Not(pins[ch])

BootloaderPcs == {"lightinit", "light", "bootnow", "bootloader"}
NormalBootPcs == {"pan0", "pan1", "pan2", "update", "hidinit", "dly500",
                  "wdtstart"}

\* ---------------------------------------------------------------------------
\* C1: the boot decision.  A boot whose single sample of the encoder switch
\* is active (pin low) runs the bootloader path, calls BOOT_now once it gets
\* there and never calls HID_init; a boot whose sample is inactive runs the
\* normal path, never calls BOOT_now and calls HID_init exactly once (no call
\* before line 188, one call from then on).
\* ---------------------------------------------------------------------------
C1_BootDecision ==
  /\ bootPin = 0 =>
       /\ pc \in BootloaderPcs
       /\ Count(bootCalls, <<"HID_init">>) = 0
       /\ Count(bootCalls, <<"BOOT_now">>) =
            (IF pc = "bootloader" THEN 1 ELSE 0)
  /\ bootPin = 1 =>
       /\ pc \in NormalBootPcs \cup LoopPcs
       /\ Count(bootCalls, <<"BOOT_now">>) = 0
       /\ Count(bootCalls, <<"HID_init">>) =
            (IF pc \in {"pan0", "pan1", "pan2", "update", "hidinit"}
             THEN 0 ELSE 1)

\* Both outcomes occur: the bootloader was entered in the boot after a
\* watchdog restart whose first boot went the normal way
C1_Witness ==
  /\ bootPin = 0 /\ pc = "bootloader"
  /\ Count(bootCalls, <<"BOOT_now">>) = 1
  /\ normalEntered

\* ---------------------------------------------------------------------------
\* C2: for a button channel, the calls dispatched in a boot are exactly one
\* call per change between consecutive sampled levels (the first compared
\* with the initial inactive state), in order: the pressed macro for a
\* change to active, the released macro for a change to inactive.
\* ---------------------------------------------------------------------------
RECURSIVE EdgeCalls(_, _, _)
EdgeCalls(ch, levels, from) ==
  IF levels = <<>> THEN <<>>
  ELSE IF Head(levels) = from THEN EdgeCalls(ch, Tail(levels), from)
  ELSE <<IF Head(levels) = 1 THEN PressedOf(ch) ELSE ReleasedOf(ch)>>
         \o EdgeCalls(ch, Tail(levels), Head(levels))

C2_OneCallPerChange ==
  watch \in ButtonChannels => chanCalls = EdgeCalls(watch, chanSamples, 0)

C2_Witness ==
  /\ watch = "key1"
  /\ chanSamples = <<1, 0, 1>>
  /\ chanCalls = <<KEY1_PRESSED, KEY1_RELEASED, KEY1_PRESSED>>

\* ---------------------------------------------------------------------------
\* C3: when the level sampled on a channel differs from its stored last
\* state, the iteration detects one transition, Rose for a new active level
\* and Fell for an inactive one, a button channel dispatches exactly one
\* call, and the stored last state is the sampled level afterwards.
\* ---------------------------------------------------------------------------
C3_EdgeDetected ==
  \A ch \in Channels :
    (det[ch] # "Idle" /\ Level(ch) # before[ch]) =>
      /\ det[ch] = (IF Level(ch) = 1 THEN "Rose" ELSE "Fell")
      /\ Last(ch) = Level(ch)
      /\ ch \in ButtonChannels => IterCount(ch) = 1

C3_Witness ==
  /\ det["key1"] = "Rose" /\ key1last = 1 /\ pins["key1"] = 0
  /\ det["encA"] = "Fell" /\ encAlast = 0 /\ pins["encA"] = 1
  /\ det["encSW"] = "Fell" /\ encSWlast = 0

\* ---------------------------------------------------------------------------
\* C4: a channel sampled at the same level in two consecutive iterations
\* shows no transition in the second one: nothing is detected, no call is
\* dispatched for it and its stored last state is left as it was.
\* ---------------------------------------------------------------------------
C4_NoChangeNoEvent ==
  \A ch \in Channels :
    (det[ch] # "Idle" /\ prev[ch] = pins[ch]) =>
      /\ det[ch] = "None"
      /\ Last(ch) = before[ch]
      /\ IterCount(ch) = 0

C4_Witness ==
  /\ prev["key2"] = 0 /\ pins["key2"] = 0 /\ det["key2"] = "None"
  /\ key2last = 1
  /\ prev["encA"] = 0 /\ pins["encA"] = 0 /\ det["encA"] = "None"

\* ---------------------------------------------------------------------------
\* C5 as stated: after a Rose on encoder channel A, channel B active (pin
\* low, the sense of every other channel) gives exactly one clockwise call
\* and no counter-clockwise call, channel B inactive gives exactly one
\* counter-clockwise call and no clockwise call; a Fell on channel A gives
\* no rotation call.
\* ---------------------------------------------------------------------------
C5_AsStated ==
  /\ (det["encA"] = "Rose" /\ pins["encB"] = 0) =>
       /\ Count(iterCalls, ENC_CW_ACTION) = 1
       /\ Count(iterCalls, ENC_CCW_ACTION) = 0
  /\ (det["encA"] = "Rose" /\ pins["encB"] = 1) =>
       /\ Count(iterCalls, ENC_CCW_ACTION) = 1
       /\ Count(iterCalls, ENC_CW_ACTION) = 0
  /\ det["encA"] = "Fell" => IterCount("encA") = 0

\* ---------------------------------------------------------------------------
\* C5 amended: after a Rose on encoder channel A, a high level on the
\* channel B pin (B inactive in the sense of the other channels) gives
\* exactly one clockwise call, a single KBD_type, and no counter-clockwise
\* call; a low level (B active) gives exactly one counter-clockwise call and
\* no clockwise call; a Fell on channel A gives no rotation call.
\* ---------------------------------------------------------------------------
C5_DirectionByPinLevel ==
  /\ (det["encA"] = "Rose" /\ pins["encB"] = 1) =>
       /\ Count(iterCalls, ENC_CW_ACTION) = 1
       /\ Count(iterCalls, ENC_CCW_ACTION) = 0
       /\ ENC_CW_ACTION[1] = "KBD_type"
  /\ (det["encA"] = "Rose" /\ pins["encB"] = 0) =>
       /\ Count(iterCalls, ENC_CCW_ACTION) = 1
       /\ Count(iterCalls, ENC_CW_ACTION) = 0
       /\ ENC_CCW_ACTION[1] = "KBD_type"
  /\ det["encA"] = "Rose" => pins["encB"] \in Bit
  /\ det["encA"] = "Fell" => IterCount("encA") = 0

C5_Witness ==
  /\ det["encA"] = "Rose" /\ pins["encB"] = 0
  /\ Count(iterCalls, ENC_CCW_ACTION) = 1
  /\ prev["encA"] = 1

\* ---------------------------------------------------------------------------
\* C6: the calls of one iteration appear in the order key 1, key 2, key 3,
\* encoder rotation, encoder switch, and they are determined by the sampled
\* levels alone (those of this iteration and of the one before).
\* ---------------------------------------------------------------------------
Rank(call) ==
  CASE call \in ActionsOf("key1") -> 1
    [] call \in ActionsOf("key2") -> 2
    [] call \in ActionsOf("key3") -> 3
    [] call \in ActionsOf("encA") -> 4
    [] call \in ActionsOf("encSW") -> 5
    [] OTHER -> 6

\* The level a channel's previous sample left behind (inactive at first)
Held(ch) == IF prev[ch] = NotSampled THEN 0 ELSE Not(prev[ch])

\* The call the samples of a channel ask for
Due(ch) ==
  IF pins[ch] = NotSampled \/ Level(ch) = Held(ch) THEN <<>>
  ELSE IF ch = "encA"
       THEN (IF Level(ch) = 0 THEN <<>>
             ELSE IF pins["encB"] = 1 THEN <<ENC_CW_ACTION>>
             ELSE <<ENC_CCW_ACTION>>)
       ELSE (IF Level(ch) = 1 THEN <<PressedOf(ch)>> ELSE <<ReleasedOf(ch)>>)

C6_FixedOrder ==
  /\ \A m, n \in DOMAIN iterCalls :
       m < n => Rank(iterCalls[m]) < Rank(iterCalls[n])
  /\ iterCalls = Due("key1") \o Due("key2") \o Due("key3") \o Due("encA")
                   \o Due("encSW")
                   \o (IF pc = "wdtreset" THEN <<<<"DLY_ms", 2>>>> ELSE <<>>)

C6_Witness ==
  /\ pc = "dly2"
  /\ det["key2"] = "None" /\ det["encA"] = "None"
  /\ iterCalls = <<KEY1_RELEASED, KEY3_PRESSED, ENC_SW_PRESSED>>

\* ---------------------------------------------------------------------------
\* C7: as long as every iteration (started at WDT_start or at the previous
\* WDT_reset) has stayed below the watchdog period, the watchdog has not run
\* out and no watchdog reset has occurred.
\* ---------------------------------------------------------------------------
C7_NoResetWithoutOverrun ==
  ~overrun => (wdtResets = 0 /\ wdtCount < WdtBound)

C7_Witness ==
  /\ ~overrun /\ wdtResets = 0
  /\ iters >= 2 /\ pc = "wdtreset" /\ iterTime = WdtBound - 1

\* ---------------------------------------------------------------------------
\* C8: once the armed watchdog has run out without a WDT_reset, the device
\* is reset and main() runs again from its entry up to the boot decision
\* with all five last states 0 and the watchdog disarmed; until the reset
\* the program takes no step of its own.
\* ---------------------------------------------------------------------------
RanOut == wdtArmed /\ wdtCount >= WdtBound

Restarted ==
  /\ pc = "decide" /\ wdtResets > 0 /\ ~wdtArmed
  /\ key1last = 0 /\ key2last = 0 /\ key3last = 0
  /\ encAlast = 0 /\ encSWlast = 0

C8_StallLeadsToRestart ==
  /\ (RanOut /\ wdtResets < MaxResets) ~> Restarted
  /\ [][RanOut => (pc' = "entry" /\ wdtResets' = wdtResets + 1)]_vars

C8_Witness ==
  Restarted /\ overrun /\ normalEntered

\* ---------------------------------------------------------------------------
\* C9 as stated: once HID_init has been reached, the boot condition is never
\* sampled again and the bootloader path is never taken.
\* ---------------------------------------------------------------------------
C9_AsStated ==
  normalEntered => (decisions = 1 /\ pc \notin BootloaderPcs)

\* ---------------------------------------------------------------------------
\* C9 amended: in every boot (power-on or watchdog restart) the boot
\* condition is sampled exactly once, before the first loop iteration; the
\* loop never samples it again and never leads to BOOT_now, whatever the
\* encoder switch does.  The bootloader path is taken after HID_init was
\* reached only in a later boot, which a watchdog reset starts.
\* ---------------------------------------------------------------------------
C9_OncePerBoot ==
  /\ decisions = wdtResets + (IF pc \in {"entry", "decide"} THEN 0 ELSE 1)
  /\ pc \in LoopPcs =>
       /\ bootPin = 1
       /\ Count(bootCalls, <<"BOOT_now">>) = 0
  /\ (normalEntered /\ pc \in BootloaderPcs) => wdtResets > 0

C9_Witness ==
  /\ pc = "dly2" /\ iters >= 1
  /\ det["encSW"] = "Rose" /\ pins["encSW"] = 0
  /\ decisions = 1 /\ wdtResets = 0

\* ---------------------------------------------------------------------------
\* C10: the normal boot path makes its calls in the order of the source,
\* each once: the three NEO_writeColor of pixels 0..2, NEO_update, HID_init,
\* DLY_ms(500), WDT_start, and only then the loop; no macro call is made
\* before HID_init, and the watchdog is not armed before the 500 ms delay
\* is over.
\* ---------------------------------------------------------------------------
SetupCalls ==
  <<<<"NEO_init">>, <<"CLK_config">>, <<"DLY_ms", 10>>, <<"NEO_clearAll">>>>

NormalCalls ==
  SetupCalls \o
  <<<<"NEO_writeColor", 0, 255, 33, 140>>, <<"NEO_writeColor", 1, 255, 216, 0>>,
    <<"NEO_writeColor", 2, 33, 177, 255>>, <<"NEO_update">>, <<"HID_init">>,
    <<"DLY_ms", 500>>, <<"WDT_start">>>>

IsPrefix(a, b) == Len(a) <= Len(b) /\ a = SubSeq(b, 1, Len(a))

C10_NormalBootOrder ==
  /\ bootPin = 1 => IsPrefix(bootCalls, NormalCalls)
  /\ pc \in LoopPcs => bootCalls = NormalCalls
  /\ (iterCalls # <<>> \/ chanCalls # <<>>) =>
       Count(bootCalls, <<"HID_init">>) = 1
  /\ wdtArmed => Count(bootCalls, <<"DLY_ms", 500>>) = 1
  /\ pc \in {"hidinit", "dly500", "wdtstart"} => ~wdtArmed

C10_Witness ==
  /\ pc = "key2" /\ iters = 0
  /\ bootCalls = NormalCalls
  /\ iterCalls = <<KEY1_PRESSED>>
  /\ wdtArmed

\* ---------------------------------------------------------------------------
\* C11: at every iteration boundary of the loop (at DLY_ms(2) and at
\* WDT_reset, after the encoder-switch block) each of the five last states
\* equals the logical level sampled for its channel in the iteration just
\* run; it still does when the next iteration starts.
\* ---------------------------------------------------------------------------
C11_LastIsLastSample ==
  /\ pc \in {"dly2", "wdtreset"} =>
       \A ch \in Channels : pins[ch] \in Bit /\ Last(ch) = Level(ch)
  /\ (pc = "key1" /\ iters > 0) =>
       \A ch \in Channels : prev[ch] \in Bit /\ Last(ch) = Not(prev[ch])

C11_Witness ==
  /\ pc = "wdtreset" /\ iters >= 1
  /\ key1last = 1 /\ pins["key1"] = 0
  /\ key3last = 0 /\ pins["key3"] = 1 /\ prev["key3"] = 0
  /\ encAlast = 0 /\ pins["encA"] = 1 /\ prev["encA"] = 0

\* ---------------------------------------------------------------------------
\* C12: in every iteration each channel causes at most one macro call, a
\* channel that shows no transition causes none, and the iteration makes at
\* most five macro calls.
\* ---------------------------------------------------------------------------
MacroCalls == UNION {ActionsOf(ch) : ch \in Channels}

C12_AtMostOneCallPerChannel ==
  /\ \A ch \in Channels :
       /\ IterCount(ch) <= 1
       /\ det[ch] \in {"Idle", "None"} => IterCount(ch) = 0
  /\ Cardinality({n \in DOMAIN iterCalls : iterCalls[n] \in MacroCalls}) <= 5

C12_Witness ==
  /\ pc = "dly2" /\ iters >= 1
  /\ Len(iterCalls) = 5
  /\ \A ch \in Channels : IterCount(ch) = 1

\* ---------------------------------------------------------------------------
\* C13: every loop iteration calls WDT_reset exactly once, as its last
\* statement: the number of WDT_reset calls of a boot equals the number of
\* iterations run to their end, and each call comes when all five channels
\* have been handled and DLY_ms(2) was the call before it; no WDT_reset
\* comes between two channel blocks.
\* ---------------------------------------------------------------------------
C13_RefreshEndsIteration ==
  /\ [](iters = Len(chanSamples) - (IF det[watch] # "Idle" THEN 1 ELSE 0))
  /\ [][iters' # iters =>
          \/ pc' = "entry"
          \/ /\ iters' = iters + 1
             /\ pc = "wdtreset" /\ pc' = "key1"
             /\ \A ch \in Channels : det[ch] # "Idle"
             /\ iterCalls # <<>>
             /\ iterCalls[Len(iterCalls)] = <<"DLY_ms", 2>>
             /\ Count(iterCalls, <<"DLY_ms", 2>>) = 1
             /\ wdtCount' = 0]_vars

C13_Witness ==
  /\ pc = "key1" /\ iters = 2 /\ Len(chanSamples) = 2
  /\ wdtCount = 0 /\ wdtArmed /\ ~overrun

\* ---------------------------------------------------------------------------
\* C14: in a boot WDT_start is called at most once, only on the normal path
\* and after HID_init; the watchdog is armed exactly from that call on, so
\* every WDT_reset finds it armed, and on the bootloader path it is never
\* armed.
\* ---------------------------------------------------------------------------
C14_WatchdogArming ==
  /\ Count(bootCalls, <<"WDT_start">>) <= 1
  /\ Count(bootCalls, <<"WDT_start">>) = 1 =>
       /\ bootPin = 1
       /\ \E m, n \in DOMAIN bootCalls :
            /\ m < n
            /\ bootCalls[m] = <<"HID_init">>
            /\ bootCalls[n] = <<"WDT_start">>
  /\ wdtArmed <=> Count(bootCalls, <<"WDT_start">>) = 1
  /\ (iters > 0 \/ pc = "wdtreset") => wdtArmed
  /\ (bootPin = 0 \/ pc \in BootloaderPcs) => ~wdtArmed

C14_Witness ==
  /\ pc = "wdtreset" /\ iters >= 1
  /\ wdtArmed /\ Count(bootCalls, <<"WDT_start">>) = 1
  /\ wdtResets = 1

\* ---------------------------------------------------------------------------
\* C15: on the bootloader path 3*NEO_COUNT bytes of value 127 are sent, and
\* nothing else, before BOOT_now is called; the illumination loop ends and
\* BOOT_now is reached; after the call nothing happens any more, so none of
\* the normal-path calls, no loop iteration and no macro call follows it.
\* ---------------------------------------------------------------------------
Repeat(call, n) == [k \in 1..n |-> call]

BootloaderCalls ==
  SetupCalls \o Repeat(<<"NEO_sendByte", 127>>, 3 * NEO_COUNT)
             \o <<<<"BOOT_now">>>>

C15_BootloaderPath ==
  /\ [](pc = "light" =>
          /\ i + Count(bootCalls, <<"NEO_sendByte", 127>>) = 3 * NEO_COUNT
          /\ IsPrefix(bootCalls, BootloaderCalls))
  /\ [](pc = "bootnow" =>
          /\ Count(bootCalls, <<"NEO_sendByte", 127>>) = 3 * NEO_COUNT
          /\ Count(bootCalls, <<"BOOT_now">>) = 0)
  /\ [](pc = "bootloader" =>
          /\ bootCalls = BootloaderCalls
          /\ iterCalls = <<>> /\ chanCalls = <<>> /\ iters = 0
          /\ ~wdtArmed)
  /\ (pc = "lightinit") ~> (pc = "bootloader")
  /\ [][pc # "bootloader"]_vars

C15_Witness ==
  /\ pc = "bootloader" /\ i = 0
  /\ Len(bootCalls) = Len(SetupCalls) + 3 * NEO_COUNT + 1
  /\ bootCalls[Len(bootCalls)] = <<"BOOT_now">>
  /\ bootCalls[Len(bootCalls) - 1] = <<"NEO_sendByte", 127>>

\* ---------------------------------------------------------------------------
\* C16: a stored last state is written only by the block of its own
\* channel (and by its initialiser when main() is entered): the block of
\* one channel leaves the other four unchanged, the boot statements after
\* the initialisers, DLY_ms(2) and WDT_reset leave all five unchanged, and
\* so do the macro functions, which are called inside the blocks.
\* ---------------------------------------------------------------------------
BlockOf(ch) == IF ch = "encA" THEN "enc" ELSE ch

C16_OwnLastOnly ==
  [][\A ch \in Channels :
       Last(ch)' # Last(ch) =>
         \/ pc = BlockOf(ch)
         \/ pc = "entry"
         \/ pc' = "entry"]_vars

C16_Witness ==
  /\ pc = "key3"
  /\ det["key2"] = "Rose" /\ key2last = 1
  /\ det["key1"] = "None" /\ key1last = 1
  /\ key3last = 1 /\ encAlast = 1 /\ encSWlast = 0

\* ---------------------------------------------------------------------------
\* C17: encoder channel B is read exactly in the iterations where channel A
\* shows a Rose; the rotation call of such an iteration is given by the B
\* level read in it and by nothing else; no B level is held when an
\* iteration starts; a Fell on channel A sets encAlast to 0, reads no other
\* pin and makes no call.
\* ---------------------------------------------------------------------------
IsRotation(call) == call \in ActionsOf("encA")

C17_FreshBOnRoseOnly ==
  /\ pins["encB"] # NotSampled <=> det["encA"] = "Rose"
  /\ det["encA"] = "Rose" =>
       /\ SelectSeq(iterCalls, IsRotation) =
            <<IF pins["encB"] = 1 THEN ENC_CW_ACTION ELSE ENC_CCW_ACTION>>
       /\ watch = "encA" =>
            chanCalls[Len(chanCalls)] =
              (IF pins["encB"] = 1 THEN ENC_CW_ACTION ELSE ENC_CCW_ACTION)
  /\ det["encA"] = "Fell" =>
       /\ encAlast = 0 /\ before["encA"] = 1
       /\ pins["encB"] = NotSampled
       /\ IterCount("encA") = 0
  /\ pc \in {"key1", "key2", "key3", "enc"} => pins["encB"] = NotSampled

C17_Witness ==
  /\ watch = "encA" /\ pc = "encSW"
  /\ chanSamples = <<1, 0>> /\ chanCalls = <<ENC_CW_ACTION>>
  /\ det["encA"] = "Fell" /\ encAlast = 0
  /\ pins["encB"] = NotSampled /\ iterCalls = <<>>

\* ---------------------------------------------------------------------------
\* C18: within a boot the calls dispatched for a button channel alternate
\* pressed, released, pressed, ... and start with pressed; between the
\* blocks of the loop, so at every iteration boundary, the channel's stored
\* last state is 1 exactly when the latest call dispatched for it was its
\* pressed macro (0 when none was dispatched).
\* ---------------------------------------------------------------------------
C18_PressReleasePairing ==
  watch \in ButtonChannels =>
    /\ \A n \in DOMAIN chanCalls :
         chanCalls[n] = (IF n % 2 = 1 THEN PressedOf(watch)
                         ELSE ReleasedOf(watch))
    /\ pc \in LoopPcs =>
         (Last(watch) = 1 <=>
            (chanCalls # <<>> /\
             chanCalls[Len(chanCalls)] = PressedOf(watch)))

C18_Witness ==
  /\ watch = "encSW" /\ pc = "dly2"
  /\ chanCalls = <<ENC_SW_PRESSED, ENC_SW_RELEASED, ENC_SW_PRESSED>>
  /\ encSWlast = 1

\* ---------------------------------------------------------------------------
\* C19: the number of rotation calls of a boot equals the number of
\* iterations in which channel A was sampled active while encAlast was 0
\* (the sample before it, if any, was inactive); so every rotation call but
\* the first has an inactive sample of channel A between it and the one
\* before, and holding channel A active adds no call.
\* ---------------------------------------------------------------------------
\* Positions of a level sequence that are active after an inactive level
Rises(levels) ==
  {n \in DOMAIN levels :
     levels[n] = 1 /\ (n = 1 \/ levels[n - 1] = 0)}

Zeros(levels) == {n \in DOMAIN levels : levels[n] = 0}

C19_OneTickPerRise ==
  /\ watch = "encA" =>
       /\ Len(chanCalls) = Cardinality(Rises(chanSamples))
       /\ Len(chanCalls) <= Cardinality(Zeros(chanSamples)) + 1
       /\ \A n \in DOMAIN chanCalls : IsRotation(chanCalls[n])
  /\ det["encA"] # "Idle" =>
       (IterCount("encA") = 1 <=> (Level("encA") = 1 /\ before["encA"] = 0))

C19_Witness ==
  /\ watch = "encA" /\ pc = "encSW"
  /\ chanSamples = <<1, 0, 1>>
  /\ chanCalls = <<ENC_CW_ACTION, ENC_CCW_ACTION>>

====
